---- MODULE Spec2Model ----
(***************************************************************************)
(* Job shop scheduling as a constrained quadratic model (CQM):             *)
(* JobShopSchedulingCQM and run_shop_scheduler of job_shop_scheduler.py.   *)
(*                                                                         *)
(* A constraint is kept in algebraic form, as dimod keeps it: a label, a   *)
(* left-hand side that is a sum of terms (coefficient times a product of   *)
(* zero, one or two variables), and a right-hand side; every constraint    *)
(* reads lhs >= rhs.  An assignment (sample) maps variable labels to       *)
(* integers.                                                               *)
(***************************************************************************)
EXTENDS Integers, Sequences, FiniteSets, TLC

VARIABLES
    pc,                           \* position in run_shop_scheduler
    job_tasks,                    \* model_data.job_tasks: job -> sequence of tasks
    use_mip_solver,               \* argument of run_shop_scheduler
    allow_quadratic_constraints,  \* argument of run_shop_scheduler ("default" = left out)
    max_time,                     \* argument of run_shop_scheduler
    cqm,                          \* self.cqm: "None" or [constraints, objective]
    x,                            \* self.x: (job, resource) -> integer variable
    y,                            \* self.y: (job, job, resource) -> binary variable
    makespan,                     \* self.makespan: integer variable
    raw_sampleset,                \* what the backend returned
    time_limit,                   \* the time budget the backend was called with
    best_sample,                  \* self.best_sample
    solution,                     \* self.solution
    completion_time,              \* self.completion_time
    warned,                       \* warnings.warn was called
    error,                        \* the exception that ended the run, or "none"
    steps,                        \* the methods called so far, in order
    optimum,                      \* <<v>>: the backend proved v the least objective value
    allow_arg,                    \* how the caller passed allow_quadratic_constraints
    df                            \* the returned DataFrame rows, or "none"

vars == <<pc, job_tasks, use_mip_solver, allow_quadratic_constraints, max_time,
          cqm, x, y, makespan, raw_sampleset, time_limit, best_sample, solution,
          completion_time, warned, error, steps, optimum, allow_arg, df>>

-----------------------------------------------------------------------------
(* Bounds of the model *)

\* largest total duration of an instance (= its get_max_makespan())
MaxTotal == 4
\* largest value a backend of the orchestration specification returns
MaxVal == 1
\* largest number of samples in a returned sample set
MaxSamples == 2

\* time_limit default of call_mip_solver
MipDefaultTimeLimit == 100
\* at most this many samples are kept by truncate in call_cqm_solver
TruncateTo == 10

Jobs == {1, 2}
ResourceSets == {{1}, {1, 2}}
\* max_time: <<>> is None (the command line without -tl), <<t>> is t seconds
MaxTimes == {<<>>, <<5>>}

-----------------------------------------------------------------------------
(* The schedule data source (JobShopData) *)

Task(r, d) == [resource |-> r, duration |-> d]

Range(s) == {s[n] : n \in DOMAIN s}

RECURSIVE SumSeq(_)
SumSeq(s) == IF s = <<>> THEN 0 ELSE Head(s) + SumSeq(Tail(s))

RECURSIVE SumOver(_, _)
SumOver(S, f) ==
    IF S = {} THEN 0
    ELSE LET e == CHOOSE e \in S : TRUE IN f[e] + SumOver(S \ {e}, f)

\* the routes through R: every resource exactly once
Routes(R) ==
    {r \in [1..Cardinality(R) -> R] : \A a, b \in DOMAIN r : a # b => r[a] # r[b]}

TaskSeqs(R, maxd) ==
    {[n \in 1..Cardinality(R) |-> Task(r[n], d[n])] :
        r \in Routes(R), d \in [1..Cardinality(R) -> 0..maxd]}

JobDuration(ts) == SumSeq([n \in DOMAIN ts |-> ts[n].duration])

\* model_data.get_max_makespan(): the sum of all durations
get_max_makespan(jt) == SumOver(DOMAIN jt, [j \in DOMAIN jt |-> JobDuration(jt[j])])

Instances(maxTotal) ==
    UNION {{jt \in [Jobs -> TaskSeqs(R, maxTotal)] : get_max_makespan(jt) <= maxTotal} :
            R \in ResourceSets}

\* model_data.jobs
jobs(jt) == DOMAIN jt

\* model_data.resources
resources(jt) == UNION {{t.resource : t \in Range(jt[j])} : j \in DOMAIN jt}

\* model_data.get_resource_job_tasks(job=j, resource=i)
get_resource_job_tasks(jt, j, i) == CHOOSE t \in Range(jt[j]) : t.resource = i

-----------------------------------------------------------------------------
(* Variables and expressions *)

XLabel(j, i) == <<"x", j, i>>
YLabel(j, k, i) == <<"y", j, k, i>>
MakespanLabel == <<"makespan">>

Term(c, vs) == [c |-> c, vs |-> vs]

RECURSIVE Product(_, _)
Product(vs, s) == IF vs = <<>> THEN 1 ELSE s[Head(vs)] * Product(Tail(vs), s)

RECURSIVE Eval(_, _)
Eval(expr, s) ==
    IF expr = <<>> THEN 0
    ELSE Head(expr).c * Product(Head(expr).vs, s) + Eval(Tail(expr), s)

Constraint(label, lhs, rhs) == [label |-> label, lhs |-> lhs, rhs |-> rhs]

Satisfies(s, c) == Eval(c.lhs, s) >= c.rhs

ExprVars(expr) == UNION {Range(expr[n].vs) : n \in DOMAIN expr}

\* the variables of a model: those of its constraints and of its objective
CqmVariables(m) ==
    UNION {ExprVars(c.lhs) : c \in m.constraints} \cup ExprVars(m.objective)

Feasible(m, s) == \A c \in m.constraints : Satisfies(s, c)

Energy(m, s) == Eval(m.objective, s)

-----------------------------------------------------------------------------
(* The constraint model builder (class JobShopSchedulingCQM) *)

IntegerVar(label, ub) == [label |-> label, lower_bound |-> 0, upper_bound |-> ub]
BinaryVar(label) == [label |-> label, lower_bound |-> 0, upper_bound |-> 1]

\* define_variables: self.makespan
define_makespan(jt) == IntegerVar(MakespanLabel, get_max_makespan(jt))

\* define_variables: self.x
define_x(jt) ==
    [k \in jobs(jt) \X resources(jt) |->
        IntegerVar(XLabel(k[1], k[2]), get_max_makespan(jt))]

\* define_variables: self.y
define_y(jt) ==
    [k \in jobs(jt) \X jobs(jt) \X resources(jt) |->
        BinaryVar(YLabel(k[1], k[2], k[3]))]

\* define_objective_function: the objective is the makespan variable
objective_function == <<Term(1, <<makespan.label>>)>>

\* a slip in precedence_constraint: the current task's duration, not the previous one's
precedence_constraint_curr_duration(job, prev_task, curr_task) ==
    Constraint(<<"pj", job, curr_task.resource>>,
               <<Term(1, <<x[<<job, curr_task.resource>>].label>>),
                 Term(-1, <<x[<<job, prev_task.resource>>].label>>)>>,
               curr_task.duration)

\* the constraint of one (prev_task, curr_task) pair of a job
precedence_constraint(job, prev_task, curr_task) ==
    Constraint(<<"pj", job, curr_task.resource>>,
               <<Term(1, <<x[<<job, curr_task.resource>>].label>>),
                 Term(-1, <<x[<<job, prev_task.resource>>].label>>)>>,
               prev_task.duration)

\* add_precedence_constraints: zip(tasks[:-1], tasks[1:]) of every job
precedence_constraints(jt) ==
    UNION {{precedence_constraint(job, jt[job][n - 1], jt[job][n]) :
                n \in 2..Len(jt[job])} : job \in jobs(jt)}

\* the pairs (j, k, i) the two exclusivity loops visit
JobPairs(jt) ==
    {p \in jobs(jt) \X jobs(jt) \X resources(jt) : p[1] < p[2]}

\* a slip in quadratic_constraint: task_j's duration on the right-hand side
quadratic_constraint_rhs_j(j, k, i, task_j, task_k) ==
    Constraint(<<"OneJobj", j, k, i>>,
               <<Term(1, <<x[<<j, i>>].label>>),
                 Term(-1, <<x[<<k, i>>].label>>),
                 Term(task_k.duration - task_j.duration, <<y[<<j, k, i>>].label>>),
                 Term(2, <<y[<<j, k, i>>].label, x[<<k, i>>].label>>),
                 Term(-2, <<y[<<j, k, i>>].label, x[<<j, i>>].label>>)>>,
               task_j.duration)

\* the one constraint add_quadratic_overlap_constraint adds for (j, k, i)
quadratic_constraint(j, k, i, task_j, task_k) ==
    Constraint(<<"OneJobj", j, k, i>>,
               <<Term(1, <<x[<<j, i>>].label>>),
                 Term(-1, <<x[<<k, i>>].label>>),
                 Term(task_k.duration - task_j.duration, <<y[<<j, k, i>>].label>>),
                 Term(2, <<y[<<j, k, i>>].label, x[<<k, i>>].label>>),
                 Term(-2, <<y[<<j, k, i>>].label, x[<<j, i>>].label>>)>>,
               task_k.duration)

\* add_quadratic_overlap_constraint
quadratic_overlap_constraints(jt) ==
    {quadratic_constraint(p[1], p[2], p[3],
                          get_resource_job_tasks(jt, p[1], p[3]),
                          get_resource_job_tasks(jt, p[2], p[3])) :
        p \in {q \in JobPairs(jt) :
                  /\ get_resource_job_tasks(jt, q[2], q[3]).duration > 0
                  /\ get_resource_job_tasks(jt, q[1], q[3]).duration > 0}}

\* the first constraint add_disjunctive_constraints adds for (j, k, i)
disjunction1(j, k, i, task_k, V) ==
    Constraint(<<"disjunction1", j, k, i>>,
               <<Term(1, <<x[<<j, i>>].label>>),
                 Term(-1, <<x[<<k, i>>].label>>),
                 Term(-task_k.duration, <<>>),
                 Term(V, <<y[<<j, k, i>>].label>>)>>,
               0)

\* a slip in disjunction2: y instead of 1 - y, so y = 0 relaxes nothing and
\* y = 1 relaxes both constraints of the pair
disjunction2_same_sign(j, k, i, task_j, V) ==
    Constraint(<<"disjunction2", j, k, i>>,
               <<Term(1, <<x[<<k, i>>].label>>),
                 Term(-1, <<x[<<j, i>>].label>>),
                 Term(-task_j.duration, <<>>),
                 Term(V, <<y[<<j, k, i>>].label>>)>>,
               0)

\* the second constraint add_disjunctive_constraints adds for (j, k, i)
disjunction2(j, k, i, task_j, V) ==
    Constraint(<<"disjunction2", j, k, i>>,
               <<Term(1, <<x[<<k, i>>].label>>),
                 Term(-1, <<x[<<j, i>>].label>>),
                 Term(-task_j.duration, <<>>),
                 Term(V, <<>>),
                 Term(-V, <<y[<<j, k, i>>].label>>)>>,
               0)

\* add_disjunctive_constraints
disjunctive_constraints(jt) ==
    LET V == get_max_makespan(jt) IN
    UNION {{disjunction1(p[1], p[2], p[3], get_resource_job_tasks(jt, p[2], p[3]), V),
            disjunction2(p[1], p[2], p[3], get_resource_job_tasks(jt, p[1], p[3]), V)} :
           p \in JobPairs(jt)}

\* a slip in makespan_constraint: the last task's start, without its duration
makespan_constraint_no_duration(job, last_job_task) ==
    Constraint(<<"makespan_ctr", job>>,
               <<Term(1, <<makespan.label>>),
                 Term(-1, <<x[<<job, last_job_task.resource>>].label>>)>>,
               0)

\* the constraint add_makespan_constraint adds for one job
makespan_constraint(job, last_job_task) ==
    Constraint(<<"makespan_ctr", job>>,
               <<Term(1, <<makespan.label>>),
                 Term(-1, <<x[<<job, last_job_task.resource>>].label>>)>>,
               last_job_task.duration)

\* add_makespan_constraint
makespan_constraints(jt) ==
    {makespan_constraint(job, jt[job][Len(jt[job])]) : job \in jobs(jt)}

\* the model run_shop_scheduler builds for an instance, by exclusivity policy
BuiltModel(jt, quadratic) ==
    [constraints |->
        precedence_constraints(jt)
        \cup (IF quadratic THEN quadratic_overlap_constraints(jt)
                           ELSE disjunctive_constraints(jt))
        \cup makespan_constraints(jt),
     objective |-> objective_function]

-----------------------------------------------------------------------------
(* Sample sets (dimod.SampleSet) *)

Row(s, e, f) == [sample |-> s, energy |-> e, is_feasible |-> f]

\* the least index of a row of least energy
ArgMin(ss) ==
    CHOOSE n \in DOMAIN ss :
        /\ \A k \in DOMAIN ss : ss[n].energy <= ss[k].energy
        /\ \A k \in 1..(n - 1) : ss[k].energy > ss[n].energy

Remove(ss, n) == [k \in 1..(Len(ss) - 1) |-> IF k < n THEN ss[k] ELSE ss[k + 1]]

\* the rows in order of increasing energy
RECURSIVE SortedByEnergy(_)
SortedByEnergy(ss) ==
    IF ss = <<>> THEN <<>>
    ELSE <<ss[ArgMin(ss)]>> \o SortedByEnergy(Remove(ss, ArgMin(ss)))

\* SampleSet.filter(lambda d: d.is_feasible)
filter_feasible(ss) == SelectSeq(ss, LAMBDA d : d.is_feasible)

\* SampleSet.truncate(n): the n rows of least energy
truncate(ss, n) ==
    LET sorted == SortedByEnergy(ss) IN
    IF Len(sorted) <= n THEN sorted ELSE SubSeq(sorted, 1, n)

Min2(a, b) == IF a <= b THEN a ELSE b

\* SampleSet.first of a non-empty sample set: a row of least energy
first(ss) == SortedByEnergy(ss)[1]

-----------------------------------------------------------------------------
(* The solver backends, which are external: what they may return *)

VarsOfKind(m, kind) == {v \in CqmVariables(m) : v[1] = kind}

\* the declared domain of a variable of the model
VarRange(v) ==
    LET d == IF v[1] = "x" THEN x[<<v[2], v[3]>>]
             ELSE IF v[1] = "y" THEN y[<<v[2], v[3], v[4]>>]
             ELSE makespan
    IN d.lower_bound..d.upper_bound

\* every assignment of the variables V within their domains
AssignmentsOf(V) ==
    {s \in [V -> UNION {VarRange(v) : v \in V}] : \A v \in V : s[v] \in VarRange(v)}

\* the assignments in S that satisfy the constraints of m over the variables V
Satisfying(m, S, V) ==
    {s \in S : \A c \in m.constraints : ExprVars(c.lhs) \subseteq V => Satisfies(s, c)}

\* every assignment of the model's variables that satisfies all its constraints
\* (found by extending the start times, then the orderings, then the rest)
FeasibleSamples(m) ==
    LET XV == VarsOfKind(m, "x")
        YV == VarsOfKind(m, "y")
        ys == AssignmentsOf(YV)
        rest == AssignmentsOf(CqmVariables(m) \ (XV \cup YV))
        starts == Satisfying(m, AssignmentsOf(XV), XV)
        ordered == UNION {Satisfying(m, {xs @@ q : q \in ys}, XV \cup YV) : xs \in starts}
    IN UNION {Satisfying(m, {o @@ r : r \in rest}, CqmVariables(m)) : o \in ordered}

SetMin(S) == CHOOSE e \in S : \A f \in S : e <= f

\* an exact backend: any feasible assignment, together with the optimal value
ExactBackend(m) ==
    LET F == FeasibleSamples(m)
        opt == IF F = {} THEN <<>> ELSE <<SetMin({Energy(m, s) : s \in F})>>
    IN {[samples |-> <<Row(s, Energy(m, s), TRUE)>>, optimum |-> opt] : s \in F}

\* the assignment giving every start time the value a, the makespan the value b
\* and every ordering indicator the value of a > 0
Uniform(m, a, b) ==
    [w \in CqmVariables(m) |->
        IF w[1] = "x" THEN a ELSE IF w[1] = "y" THEN Min2(a, 1) ELSE b]

Restrict(s, D) == [w \in D |-> s[w]]

\* samples of an unconstrained backend: complete ones, and ones that lack one
\* start-time variable
PoolSamples(m) ==
    {Uniform(m, a, b) : a \in 0..MaxVal, b \in 0..MaxVal}
    \cup {Restrict(Uniform(m, a, b), CqmVariables(m) \ {w}) :
            a \in 0..MaxVal, b \in 0..MaxVal, w \in VarsOfKind(m, "x")}

PoolRows(m) == {Row(s, Energy(m, s), f) : s \in PoolSamples(m), f \in BOOLEAN}

\* an unconstrained backend: any sample set of at most MaxSamples rows
AnyBackend(m) ==
    {[samples |-> ss, optimum |-> <<>>] :
        ss \in UNION {[1..n -> PoolRows(m)] : n \in 0..MaxSamples}}

-----------------------------------------------------------------------------
(* Solution extraction *)

\* call_cqm_solver: the keys the comprehension of self.solution reads
cqm_solution_keys(jt) == jobs(jt) \X resources(jt)

\* call_cqm_solver: self.solution, for a sample that has every key
cqm_solution(jt, sample) ==
    [k \in cqm_solution_keys(jt) |->
        <<get_resource_job_tasks(jt, k[1], k[2]),
          sample[x[k].label],
          get_resource_job_tasks(jt, k[1], k[2]).duration>>]

\* call_mip_solver: the variables the loop keeps (var.startswith('x'))
mip_start_vars(best_sol) == {v \in DOMAIN best_sol : v[1] = "x"}

\* call_mip_solver: job, machine = var[1:].split('_')
mip_key(v) == <<Tail(v)[1], Tail(v)[2]>>

\* call_mip_solver: self.solution
mip_solution(jt, best_sol) ==
    [k \in {mip_key(v) : v \in mip_start_vars(best_sol)} |->
        <<get_resource_job_tasks(jt, k[1], k[2]),
          best_sol[XLabel(k[1], k[2])],
          get_resource_job_tasks(jt, k[1], k[2]).duration>>]

\* solution_as_dataframe: the rows [j, task, start, start + dur, i]
dataframe_rows(sol) ==
    {<<k[1], sol[k][1], sol[k][2], sol[k][2] + sol[k][3], k[2]>> : k \in DOMAIN sol}

-----------------------------------------------------------------------------
(* run_shop_scheduler, one action per statement *)

args == <<job_tasks, use_mip_solver, allow_quadratic_constraints, allow_arg, max_time>>
model == <<cqm, x, y, makespan>>
outcome == <<raw_sampleset, time_limit, best_sample, solution, completion_time,
             warned, optimum, df>>

NoCqm == [constraints |-> {}, objective |-> <<>>]
NoVar == [label |-> <<>>, lower_bound |-> 0, upper_bound |-> 0]

\* the state at the call, made as the script's main block makes it (start_time
\* is set before the call): the arguments are chosen, nothing is built
Called(instances, times) ==
    /\ pc = "start"
    /\ job_tasks \in instances
    /\ use_mip_solver \in BOOLEAN
    /\ allow_arg \in {"True", "False", "omitted"}
    /\ allow_quadratic_constraints = (allow_arg # "False")
    /\ max_time \in times
    /\ cqm = NoCqm
    /\ x = <<>>
    /\ y = <<>>
    /\ makespan = NoVar
    /\ raw_sampleset = <<>>
    /\ time_limit = <<>>
    /\ best_sample = <<>>
    /\ solution = <<>>
    /\ completion_time = 0
    /\ warned = FALSE
    /\ error = "none"
    /\ steps = <<>>
    /\ optimum = <<>>
    /\ df = {}

\* a slip in CheckConfiguration: the check made on use_mip_solver alone
CheckConfiguration_mip_only ==
    /\ pc = "start"
    /\ IF use_mip_solver
       THEN /\ pc' = "error"
            /\ error' = "ValueError: Cannot use quadratic constraints with MIP solver"
       ELSE /\ pc' = "accepted"
            /\ error' = error
    /\ UNCHANGED <<args, model, outcome, steps>>

\* if allow_quadratic_constraints and use_mip_solver: raise ValueError
CheckConfiguration ==
    /\ pc = "start"
    /\ IF allow_quadratic_constraints /\ use_mip_solver
       THEN /\ pc' = "error"
            /\ error' = "ValueError: Cannot use quadratic constraints with MIP solver"
       ELSE /\ pc' = "accepted"
            /\ error' = error
    /\ UNCHANGED <<args, model, outcome, steps>>

\* model = JobShopSchedulingCQM(model_data=job_data)
Construct ==
    /\ pc = "accepted"
    /\ pc' = "constructed"
    /\ cqm' = NoCqm
    /\ x' = <<>>
    /\ y' = <<>>
    /\ makespan' = NoVar
    /\ best_sample' = <<>>
    /\ solution' = <<>>
    /\ completion_time' = 0
    /\ steps' = Append(steps, "JobShopSchedulingCQM")
    /\ UNCHANGED <<args, raw_sampleset, time_limit, warned, optimum, df, error>>

define_cqm_model ==
    /\ pc = "constructed"
    /\ pc' = "model"
    /\ cqm' = [constraints |-> {}, objective |-> <<>>]
    /\ steps' = Append(steps, "define_cqm_model")
    /\ UNCHANGED <<args, x, y, makespan, outcome, error>>

define_variables ==
    /\ pc = "model"
    /\ pc' = "variables"
    /\ makespan' = define_makespan(job_tasks)
    /\ x' = define_x(job_tasks)
    /\ y' = define_y(job_tasks)
    /\ steps' = Append(steps, "define_variables")
    /\ UNCHANGED <<args, cqm, outcome, error>>

add_precedence_constraints ==
    /\ pc = "variables"
    /\ pc' = "precedence"
    /\ cqm' = [cqm EXCEPT !.constraints = @ \cup precedence_constraints(job_tasks)]
    /\ steps' = Append(steps, "add_precedence_constraints")
    /\ UNCHANGED <<args, x, y, makespan, outcome, error>>

add_quadratic_overlap_constraint ==
    /\ pc = "precedence"
    /\ allow_quadratic_constraints
    /\ pc' = "exclusivity"
    /\ cqm' = [cqm EXCEPT !.constraints = @ \cup quadratic_overlap_constraints(job_tasks)]
    /\ steps' = Append(steps, "add_quadratic_overlap_constraint")
    /\ UNCHANGED <<args, x, y, makespan, outcome, error>>

add_disjunctive_constraints ==
    /\ pc = "precedence"
    /\ ~allow_quadratic_constraints
    /\ pc' = "exclusivity"
    /\ cqm' = [cqm EXCEPT !.constraints = @ \cup disjunctive_constraints(job_tasks)]
    /\ steps' = Append(steps, "add_disjunctive_constraints")
    /\ UNCHANGED <<args, x, y, makespan, outcome, error>>

add_makespan_constraint ==
    /\ pc = "exclusivity"
    /\ pc' = "makespan"
    /\ cqm' = [cqm EXCEPT !.constraints = @ \cup makespan_constraints(job_tasks)]
    /\ steps' = Append(steps, "add_makespan_constraint")
    /\ UNCHANGED <<args, x, y, makespan, outcome, error>>

define_objective_function ==
    /\ pc = "makespan"
    /\ pc' = "objective"
    /\ cqm' = [cqm EXCEPT !.objective = objective_function]
    /\ steps' = Append(steps, "define_objective_function")
    /\ UNCHANGED <<args, x, y, makespan, outcome, error>>

\* the budget run_shop_scheduler hands to call_cqm_solver
cqm_time_limit == max_time

\* the budget call_mip_solver runs with when run_shop_scheduler calls it
mip_time_limit == <<MipDefaultTimeLimit>>

\* call_cqm_solver: the rows self.best_sample is taken from
best_samples(raw) ==
    LET feasible_sampleset == filter_feasible(raw)
        num_feasible == Len(feasible_sampleset)
    IN IF num_feasible > 0
       THEN truncate(feasible_sampleset, Min2(TruncateTo, num_feasible))
       ELSE truncate(raw, TruncateTo)

\* model.call_cqm_solver(max_time, job_data), the backend returning one of `results`
call_cqm_solver(results) ==
    /\ pc = "objective"
    /\ ~use_mip_solver
    /\ \E res \in results :
        LET raw == res.samples
            best == best_samples(raw)
        IN /\ raw_sampleset' = raw
           /\ optimum' = res.optimum
           /\ time_limit' = cqm_time_limit
           /\ warned' = (Len(filter_feasible(raw)) = 0)
           /\ steps' = Append(steps, "call_cqm_solver")
           /\ IF best = <<>>
              THEN /\ pc' = "error"
                   /\ error' = "ValueError: SampleSet is empty"
                   /\ UNCHANGED <<best_sample, solution, completion_time>>
              ELSE /\ best_sample' = first(best).sample
                   /\ IF \E k \in cqm_solution_keys(job_tasks) :
                            x[k].label \notin DOMAIN first(best).sample
                      THEN /\ pc' = "error"
                           /\ error' = "KeyError"
                           /\ UNCHANGED <<solution, completion_time>>
                      ELSE /\ pc' = "solved"
                           /\ error' = error
                           /\ solution' = cqm_solution(job_tasks, first(best).sample)
                           /\ completion_time' = first(best).sample[MakespanLabel]
    /\ UNCHANGED <<args, model, df>>

\* sol = model.call_mip_solver(), the backend returning one of `results`
call_mip_solver(results) ==
    /\ pc = "objective"
    /\ use_mip_solver
    /\ \E res \in results :
        LET sol == res.samples
        IN /\ raw_sampleset' = sol
           /\ optimum' = res.optimum
           /\ time_limit' = mip_time_limit
           /\ steps' = Append(steps, "call_mip_solver")
           /\ IF sol = <<>>
              THEN /\ pc' = "error"
                   /\ error' = "ValueError: SampleSet is empty"
                   /\ solution' = solution
              ELSE /\ pc' = "solved"
                   /\ error' = error
                   /\ solution' = mip_solution(job_tasks, first(sol).sample)
    /\ UNCHANGED <<args, model, best_sample, completion_time, warned, df>>

\* df = model.solution_as_dataframe(); return df
solution_as_dataframe ==
    /\ pc = "solved"
    /\ pc' = "done"
    /\ df' = dataframe_rows(solution)
    /\ steps' = Append(steps, "solution_as_dataframe")
    /\ UNCHANGED <<args, model, raw_sampleset, time_limit, best_sample, solution,
                   completion_time, warned, optimum, error>>

Build ==
    \/ CheckConfiguration
    \/ Construct
    \/ define_cqm_model
    \/ define_variables
    \/ add_precedence_constraints
    \/ add_quadratic_overlap_constraint
    \/ add_disjunctive_constraints
    \/ add_makespan_constraint
    \/ define_objective_function

-----------------------------------------------------------------------------
(* Specifications *)

\* instances of the orchestration specification
RunInstances == Instances(MaxVal)

\* the run, with backends that may return any sample set
Init == Called(RunInstances, MaxTimes)

Next ==
    \/ Build
    \/ call_cqm_solver(AnyBackend(cqm))
    \/ call_mip_solver(AnyBackend(cqm))
    \/ solution_as_dataframe

Spec == Init /\ [][Next]_vars

\* the run, with exact backends: every feasible assignment of the built model
InitModel == Called(Instances(MaxTotal), {<<>>})

NextModel ==
    \/ Build
    \/ call_cqm_solver(ExactBackend(cqm))
    \/ call_mip_solver(ExactBackend(cqm))
    \/ solution_as_dataframe

SpecModel == InitModel /\ [][NextModel]_vars

\* Job A = [(Resource 1, 3), (Resource 2, 2)], Job B = [(Resource 2, 4), (Resource 1, 1)]
ScenarioTasks ==
    (1 :> <<Task(1, 3), Task(2, 2)>>) @@ (2 :> <<Task(2, 4), Task(1, 1)>>)

InitScenario == Called({ScenarioTasks}, {<<>>})

SpecScenario == InitScenario /\ [][NextModel]_vars

-----------------------------------------------------------------------------
(* Properties *)

Called_backend == pc \in {"solved", "done"}

\* the assignment the run's solution was taken from
Winner ==
    IF use_mip_solver THEN first(raw_sampleset) ELSE first(best_samples(raw_sampleset))

Start(s, j, i) == s[XLabel(j, i)]

Max2(a, b) == IF a >= b THEN a ELSE b

\* [a, a + da) and [b, b + db) have a point in common
Overlap(a, da, b, db) == Max2(a, b) < Min2(a + da, b + db)

HasTask(jt, j, i) == \E t \in Range(jt[j]) : t.resource = i

\* the largest completion time of a job's last task under s
MaxCompletion(jt, s) ==
    LET end(j) == Start(s, j, jt[j][Len(jt[j])].resource) + jt[j][Len(jt[j])].duration
    IN CHOOSE e \in {end(j) : j \in jobs(jt)} : \A j \in jobs(jt) : end(j) <= e

\* C1: in every assignment that satisfies all constraints of the built model,
\* under either exclusivity policy, two distinct jobs with a task on the same
\* resource have non-overlapping intervals [start, start + duration).
C1_NoOverlap ==
    (Called_backend /\ Feasible(cqm, Winner.sample)) =>
        \A j, k \in jobs(job_tasks) : \A i \in resources(job_tasks) :
            (j # k /\ HasTask(job_tasks, j, i) /\ HasTask(job_tasks, k, i)) =>
                ~Overlap(Start(Winner.sample, j, i),
                         get_resource_job_tasks(job_tasks, j, i).duration,
                         Start(Winner.sample, k, i),
                         get_resource_job_tasks(job_tasks, k, i).duration)

\* C1 witness: a feasible assignment of a model built with the quadratic policy
\* in which job 2 runs before job 1 on a resource where both take time.
C1_Witness ==
    /\ pc = "solved"
    /\ allow_quadratic_constraints
    /\ Feasible(cqm, Winner.sample)
    /\ \E i \in resources(job_tasks) :
        /\ get_resource_job_tasks(job_tasks, 1, i).duration > 0
        /\ get_resource_job_tasks(job_tasks, 2, i).duration > 0
        /\ Start(Winner.sample, 2, i) < Start(Winner.sample, 1, i)

\* C4: in every assignment that satisfies all constraints, the makespan value is
\* at least the largest completion time of a job's last task, and in every
\* optimal one it equals it.
C4_Makespan ==
    (Called_backend /\ Feasible(cqm, Winner.sample)) =>
        /\ Winner.sample[MakespanLabel] >= MaxCompletion(job_tasks, Winner.sample)
        /\ optimum = <<Energy(cqm, Winner.sample)>> =>
              Winner.sample[MakespanLabel] = MaxCompletion(job_tasks, Winner.sample)

\* C4 witness: an optimal assignment of an instance in which both jobs take time.
C4_Witness ==
    /\ pc = "solved"
    /\ Feasible(cqm, Winner.sample)
    /\ optimum = <<Energy(cqm, Winner.sample)>>
    /\ \A j \in jobs(job_tasks) : JobDuration(job_tasks[j]) > 0
    /\ Cardinality(resources(job_tasks)) = 2

\* the assignments of the start-time variables that satisfy the constraints
\* add_precedence_constraints emitted
PrecedenceFeasible ==
    {s \in AssignmentsOf({x[k].label : k \in DOMAIN x}) : Feasible(cqm, s)}

\* C5: every assignment satisfying the constraints emitted by
\* add_precedence_constraints starts each task of a job no earlier than the
\* previous task of the job ends, and exactly one constraint is emitted per
\* (job, non-first task): a job with a single task contributes none.
C5_Precedence ==
    pc = "precedence" =>
        /\ \A s \in PrecedenceFeasible :
            \A job \in jobs(job_tasks) : \A n \in 2..Len(job_tasks[job]) :
                Start(s, job, job_tasks[job][n].resource)
                    >= Start(s, job, job_tasks[job][n - 1].resource)
                       + job_tasks[job][n - 1].duration
        /\ \A job \in jobs(job_tasks) : \A n \in 2..Len(job_tasks[job]) :
            Cardinality({c \in cqm.constraints :
                            c.label = <<"pj", job, job_tasks[job][n].resource>>}) = 1
        /\ Cardinality(cqm.constraints)
             = SumOver(jobs(job_tasks),
                       [job \in jobs(job_tasks) |-> Len(job_tasks[job]) - 1])

\* C5 witness: precedence constraints were added for two-task jobs whose first
\* tasks take time.
C5_Witness ==
    /\ pc = "precedence"
    /\ \A job \in jobs(job_tasks) :
        Len(job_tasks[job]) = 2 /\ job_tasks[job][1].duration > 0
    /\ PrecedenceFeasible # {}

ConfigurationError == "ValueError: Cannot use quadratic constraints with MIP solver"

\* C6: use_mip_solver with allow_quadratic_constraints true (given or left at
\* its default) ends in a configuration error before the model object exists,
\* before any variable or constraint is made and before any solver is invoked;
\* no other combination of the two flags produces this error.
C6_ConfigurationError ==
    /\ pc # "start" =>
          ((error = ConfigurationError) <=> (use_mip_solver /\ allow_arg # "False"))
    /\ error = ConfigurationError =>
          /\ pc = "error"
          /\ steps = <<>>
          /\ cqm = NoCqm /\ x = <<>> /\ y = <<>> /\ makespan = NoVar
          /\ raw_sampleset = <<>> /\ time_limit = <<>>

\* C6 witness: the run was rejected with allow_quadratic_constraints left out.
C6_Witness ==
    /\ error = ConfigurationError
    /\ use_mip_solver
    /\ allow_arg = "omitted"

\* the model of the same instance under the other exclusivity policy
OtherModel == BuiltModel(job_tasks, ~allow_quadratic_constraints)

\* s satisfies every constraint of m once its ordering indicators are re-derived
FeasibleForSomeY(m, s) ==
    \E q \in AssignmentsOf(VarsOfKind(m, "y")) :
        Feasible(m, Restrict(s, DOMAIN s \ VarsOfKind(cqm, "y")) @@ q)

\* the least objective value over the feasible assignments of m
OptimumOf(m) ==
    LET F == FeasibleSamples(m)
    IN IF F = {} THEN <<>> ELSE <<SetMin({Energy(m, s) : s \in F})>>

\* C2: the two exclusivity policies are equivalent, zero-duration tasks
\* included: start times and a makespan feasible for the model built with one
\* policy (for some y) are feasible for the model built with the other (for
\* some y), and both models have the same optimal makespan.
C2_Equivalent ==
    (Called_backend /\ Feasible(cqm, Winner.sample)) =>
        /\ FeasibleForSomeY(OtherModel, Winner.sample)
        /\ optimum = <<Energy(cqm, Winner.sample)>> => optimum = OptimumOf(OtherModel)

\* C3: for the scenario instance (Job A = [(1, 3), (2, 2)], Job B = [(2, 4),
\* (1, 1)]) the built model is feasible and its optimal makespan, over all
\* assignments within the variable bounds, is exactly 7.
C3_Optimum7 ==
    (Called_backend /\ Feasible(cqm, Winner.sample)) =>
        /\ Energy(cqm, Winner.sample) >= 7
        /\ optimum = <<7>>

\* C3 as amended: the built model of the scenario instance is feasible and its
\* optimal makespan is exactly 6 (the schedule the scenario describes, with A on
\* resource 2 at t = 3, overlaps B on resource 2 during [3, 4)).
C3_Optimum6 ==
    (Called_backend /\ Feasible(cqm, Winner.sample)) =>
        /\ Energy(cqm, Winner.sample) >= 6
        /\ optimum = <<6>>

\* C3 witness: a feasible assignment of the scenario's model with makespan 6.
C3_Witness ==
    /\ pc = "solved"
    /\ job_tasks = ScenarioTasks
    /\ Feasible(cqm, Winner.sample)
    /\ Winner.sample[MakespanLabel] = 6

\* a backend was called and returned at least one row
Returned == "define_objective_function" \in Range(steps) /\ pc # "objective"
            /\ raw_sampleset # <<>>

\* the sample lacks the start-time variable of a (job, resource) pair with a task
Lacks(s) ==
    \E j \in jobs(job_tasks) : \E i \in resources(job_tasks) :
        HasTask(job_tasks, j, i) /\ XLabel(j, i) \notin DOMAIN s

\* C7: on both extraction paths, extraction fails with a missing-variable error
\* whenever the returned assignment lacks the start-time variable of a
\* (job, resource) pair that has a task.
C7_FailsLoudly ==
    (Returned /\ Lacks(Winner.sample)) => (pc = "error" /\ error = "KeyError")

\* C8: after a solver call completes, completion_time equals the value of the
\* makespan variable in the winning assignment, whichever backend was used.
C8_CompletionTime ==
    Called_backend => completion_time = Winner.sample[MakespanLabel]

\* every returned row has every variable of the model
AllComplete == \A n \in DOMAIN raw_sampleset : ~Lacks(raw_sampleset[n].sample)

\* the backend was called and has answered as its contract allows: the hybrid
\* backend with at least one row, the local one with any number of complete rows
Answered ==
    /\ "define_objective_function" \in Range(steps) /\ pc # "objective"
    /\ AllComplete
    /\ use_mip_solver \/ raw_sampleset # <<>>

\* C9: when the solver returns no feasible assignment the run does not abort (the
\* hybrid path warns and takes the best infeasible assignment, and on either
\* backend the caller receives a schedule table); when a feasible assignment is
\* returned, the best feasible one is selected and no warning is emitted.
C9_NoAbort ==
    Answered =>
        IF filter_feasible(raw_sampleset) = <<>>
        THEN /\ pc # "error"
             /\ ~use_mip_solver => (warned /\ best_sample = first(raw_sampleset).sample)
        ELSE /\ pc # "error"
             /\ ~use_mip_solver =>
                   /\ ~warned
                   /\ best_sample = first(filter_feasible(raw_sampleset)).sample

ExpectedSteps ==
    <<"JobShopSchedulingCQM", "define_cqm_model", "define_variables",
      "add_precedence_constraints",
      IF allow_quadratic_constraints THEN "add_quadratic_overlap_constraint"
                                     ELSE "add_disjunctive_constraints",
      "add_makespan_constraint", "define_objective_function",
      IF use_mip_solver THEN "call_mip_solver" ELSE "call_cqm_solver",
      "solution_as_dataframe">>

\* C10: in every accepted run the steps occur in the order build, precedence,
\* exactly one exclusivity policy, makespan, objective, backend call,
\* extraction; and the time budget handed to the selected backend is the
\* caller's max_time, for the hybrid and the local MIP backend alike.
C10_OrderAndBudget ==
    pc = "done" => (steps = ExpectedSteps /\ time_limit = max_time)

====
